---- MODULE Spec2Model ----
(***************************************************************************)
(* Oura Ring daily email service: configuration loading and command        *)
(* dispatch (main.py), the Oura API client (oura_client.py), the report    *)
(* formatter and the mail sender (email_service.py), and the daily         *)
(* scheduler loop built on schedule.every().day.at(T).                     *)
(*                                                                         *)
(* JSON values are tagged records [t |-> tag, v |-> value] so that the     *)
(* Python operations on them (dict.get, truthiness, indexing, f-string     *)
(* rendering) can be written as the interpreter performs them, including   *)
(* the exceptions they raise.                                              *)
(***************************************************************************)
EXTENDS Integers, Sequences, FiniteSets, TLC

VARIABLES
    pc,        \* control point of the process
    now,       \* local wall clock: [date |-> <<y, m, d>>, min |-> minute of the day]
    env,       \* environment variables read by load_config
    config,    \* the dict load_config returned
    argv,      \* the command line argument ("" when there is none)
    out,       \* what the process has printed / its exit status
    job,       \* the schedule library's job: next_run, last_run
    fetch,     \* result of the latest get_todays_data call
    run,       \* result of the latest send_daily_report call
    fmt,       \* input and result of the latest format_oura_report call
    hist       \* observation of the scheduler: its start, polls and run starts

vars == <<pc, now, env, config, argv, out, job, fetch, run, fmt, hist>>

(***************************************************************************)
(* Bounds of the model.                                                    *)
(***************************************************************************)
\* how many minutes the wall clock may advance while one call executes
MaxCallMinutes == 1
\* how many of the seven category requests may fail in one call
MaxFailures == 2
\* how many midnights the scheduler is followed through
MaxDays == 2
\* extra minutes a poll may be late by, on top of time.sleep(60)
MaxJitter == 1

(***************************************************************************)
(* Calendar: datetime.now(), timedelta(days=1), strftime("%Y-%m-%d").      *)
(***************************************************************************)
MinutesPerDay == 24 * 60

IsLeap(y) == (y % 4 = 0 /\ y % 100 # 0) \/ y % 400 = 0

DaysInMonth(y, m) ==
    IF m = 2 THEN (IF IsLeap(y) THEN 29 ELSE 28)
    ELSE IF m \in {4, 6, 9, 11} THEN 30 ELSE 31

\* date + timedelta(days=1)
NextDay(d) ==
    IF d[3] < DaysInMonth(d[1], d[2]) THEN <<d[1], d[2], d[3] + 1>>
    ELSE IF d[2] < 12 THEN <<d[1], d[2] + 1, 1>>
    ELSE <<d[1] + 1, 1, 1>>

\* date - timedelta(days=1)
PrevDay(d) ==
    IF d[3] > 1 THEN <<d[1], d[2], d[3] - 1>>
    ELSE IF d[2] > 1 THEN <<d[1], d[2] - 1, DaysInMonth(d[1], d[2] - 1)>>
    ELSE <<d[1] - 1, 12, 31>>

\* datetime + timedelta(minutes=k), 0 <= k < one day
AddMinutes(t, k) ==
    IF t.min + k < MinutesPerDay THEN [date |-> t.date, min |-> t.min + k]
    ELSE [date |-> NextDay(t.date), min |-> t.min + k - MinutesPerDay]

\* datetime + timedelta(days=1) and datetime - timedelta(days=1)
PlusOneDay(t) == [date |-> NextDay(t.date), min |-> t.min]
MinusOneDay(t) == [date |-> PrevDay(t.date), min |-> t.min]

\* strftime("%Y-%m-%d"): the calendar date of the datetime, its time of day dropped
Strftime(t) == t.date

DateLess(a, b) ==
    \/ a[1] < b[1]
    \/ a[1] = b[1] /\ a[2] < b[2]
    \/ a[1] = b[1] /\ a[2] = b[2] /\ a[3] < b[3]

\* datetime comparison a < b and a <= b
TimeLess(a, b) == DateLess(a.date, b.date) \/ (a.date = b.date /\ a.min < b.min)
TimeLeq(a, b) == a = b \/ TimeLess(a, b)

(***************************************************************************)
(* JSON values and the Python operations the code applies to them.         *)
(***************************************************************************)
None == [t |-> "null"]
IntV(n) == [t |-> "int", v |-> n]
\* a float, held in hundredths
FloatV(h) == [t |-> "float", v |-> h]
StrV(s) == [t |-> "str", v |-> s]
\* a str holding a date in YYYY-MM-DD form, and one holding an ISO timestamp
DateV(d) == [t |-> "date", v |-> d]
TimeV(x) == [t |-> "ts", v |-> x]
ListV(l) == [t |-> "list", v |-> l]
DictV(d) == [t |-> "dict", v |-> d]
EmptyDict == DictV(<<>>)
\* the outcome of an expression that raised an exception
Raise == [t |-> "raise"]
NA == StrV("N/A")

\* bool(x)
Truthy(x) ==
    CASE x.t = "null" -> FALSE
      [] x.t \in {"int", "float"} -> x.v # 0
      [] x.t = "str" -> x.v # ""
      [] x.t \in {"date", "ts"} -> TRUE
      [] x.t = "list" -> Len(x.v) > 0
      [] x.t = "dict" -> DOMAIN x.v # {}
      [] OTHER -> FALSE

\* obj.get(key, default): AttributeError unless obj is a dict
PyGet(obj, key, default) ==
    IF obj.t # "dict" THEN Raise
    ELSE IF key \in DOMAIN obj.v THEN obj.v[key] ELSE default

\* obj[0]: a list's first element; IndexError on an empty list, KeyError or
\* TypeError on a dict, a number or None
PyIndex0(obj) ==
    IF obj.t = "list" /\ Len(obj.v) > 0 THEN obj.v[1] ELSE Raise

(***************************************************************************)
(* oura_client.py: OuraClient                                              *)
(***************************************************************************)
\* the seven slots of the payload, in the order get_todays_data fills them
Categories ==
    <<"daily_sleep", "sleep_periods", "daily_readiness", "daily_activity",
      "daily_stress", "workouts", "sleep_time">>

CategorySet == {Categories[i] : i \in DOMAIN Categories}

\* the endpoint each get_<category> method requests
Endpoint(c) ==
    CASE c = "daily_sleep" -> "v2/usercollection/daily_sleep"
      [] c = "sleep_periods" -> "v2/usercollection/sleep"
      [] c = "daily_activity" -> "v2/usercollection/daily_activity"
      [] c = "daily_readiness" -> "v2/usercollection/daily_readiness"
      [] c = "daily_stress" -> "v2/usercollection/daily_stress"
      [] c = "workouts" -> "v2/usercollection/workout"
      [] c = "sleep_time" -> "v2/usercollection/sleep_time"

\* What the HTTP exchange of one request does: requests.get raises
\* ("ConnectionError"), or the server answers with a status and a body that
\* is JSON or not.  response.json() on a body that is not JSON raises a
\* RequestException subclass or a plain ValueError, depending on the installed
\* requests release: field jsonexc says which one this build raises.
OkResponse(body) == [net |-> "ok", status |-> 200, json |-> TRUE, jsonexc |-> "none", body |-> body]
NetworkError == [net |-> "down", status |-> 0, json |-> FALSE, jsonexc |-> "none", body |-> None]
HttpError(code) == [net |-> "ok", status |-> code, json |-> TRUE, jsonexc |-> "none", body |-> None]
NotJson(exc) == [net |-> "ok", status |-> 200, json |-> FALSE, jsonexc |-> exc, body |-> None]

\* an except clause that names the connection failures only
ConnectionErrorsOnly == {"ConnectionError"}

\* the exception classes that derive from requests.exceptions.RequestException
RequestExceptions == {"ConnectionError", "HTTPError", "RequestsJSONDecodeError"}

\* OuraClient._make_request: [exc |-> class of the exception raised or "none",
\* msg |-> str(e), value |-> the decoded JSON]
MakeRequest(endpoint, params, resp) ==
    IF resp.net # "ok"
        THEN [exc |-> "ConnectionError", msg |-> "connection failed", value |-> None]
    ELSE IF resp.status >= 400 /\ resp.status < 600
        THEN [exc |-> "HTTPError", msg |-> ToString(resp.status) \o " Error", value |-> None]
    ELSE IF ~resp.json
        THEN [exc |-> resp.jsonexc, msg |-> "invalid JSON", value |-> None]
    ELSE [exc |-> "none", msg |-> "", value |-> resp.body]

\* get_daily_sleep, get_sleep_periods, ... get_sleep_time: build the params and
\* delegate to _make_request
GetCategory(c, start_date, end_date, resp) ==
    MakeRequest(Endpoint(c), [start_date |-> start_date, end_date |-> end_date], resp)

\* the three strings get_todays_data derives from its three clock readings
Yesterday(reads) == Strftime(MinusOneDay(reads[1]))
Today(reads) == Strftime(reads[2])
Tomorrow(reads) == Strftime(PlusOneDay(reads[3]))

\* the date range get_todays_data passes for the i-th category
RangeOf(i, yesterday, today, tomorrow) ==
    IF i <= 3 THEN <<today, tomorrow>> ELSE <<yesterday, today>>

\* the dict get_todays_data starts from: every slot None
InitialData(reads) ==
    [date |-> DateV(Today(reads)),
     activity_date |-> DateV(Yesterday(reads)),
     fetched_at |-> TimeV(reads[4]),
     daily_sleep |-> None, sleep_periods |-> None, daily_activity |-> None,
     daily_readiness |-> None, daily_stress |-> None, workouts |-> None,
     sleep_time |-> None]

\* {"error": str(e)}
ErrorMarker(msg) == DictV([error |-> StrV(msg)])

\* The i-th try/except block of get_todays_data.  st is [data, log, raised]:
\* the dict so far, the requests issued so far, and the exception that left
\* the function ("none" while it runs).
TryBlock(i, st, reads, resp) ==
    LET c == Categories[i]
        rng == RangeOf(i, Yesterday(reads), Today(reads), Tomorrow(reads))
        r == GetCategory(c, rng[1], rng[2], resp[c])
        log == Append(st.log, [endpoint |-> Endpoint(c), start_date |-> rng[1], end_date |-> rng[2]])
    IN  IF r.exc = "none"
            THEN [data |-> [st.data EXCEPT ![c] = r.value], log |-> log, raised |-> "none"]
        ELSE IF r.exc \in RequestExceptions
            THEN [data |-> [st.data EXCEPT ![c] = ErrorMarker(r.msg)], log |-> log, raised |-> "none"]
        ELSE [data |-> st.data, log |-> log, raised |-> r.exc]

\* get_todays_data after its first i try/except blocks; a block is reached
\* only if no exception has left the function before it.  (The state after
\* block i - 1 is bound once, as a value, and handed to block i.)
RECURSIVE FetchUpTo(_, _, _)
FetchUpTo(i, reads, resp) ==
    IF i = 0 THEN [data |-> InitialData(reads), log |-> <<>>, raised |-> "none"]
    ELSE CHOOSE after \in
            {IF st.raised # "none" THEN st ELSE TryBlock(i, st, reads, resp) :
                st \in {FetchUpTo(i - 1, reads, resp)}} : TRUE

\* OuraClient.get_todays_data, given its four clock readings (yesterday, today,
\* tomorrow, fetched_at) and the exchange each category's request meets
GetTodaysData(reads, resp) == FetchUpTo(Len(Categories), reads, resp)

(***************************************************************************)
(* email_service.py: the formatting helpers                                *)
(***************************************************************************)
Pad2(n) == IF n < 10 THEN "0" \o ToString(n) ELSE ToString(n)
Pad3(n) == IF n < 10 THEN "00" \o ToString(n) ELSE IF n < 100 THEN "0" \o ToString(n) ELSE ToString(n)
Abs(n) == IF n < 0 THEN -n ELSE n

\* str(x) of a float held in hundredths: 0.34, 12.5, 2.0
FloatStr(h) ==
    LET a == Abs(h)
        frac == a % 100
    IN  (IF h < 0 THEN "-" ELSE "") \o ToString(a \div 100) \o "." \o
        (IF frac % 10 = 0 THEN ToString(frac \div 10) ELSE Pad2(frac))

\* a date in YYYY-MM-DD form
DateStr(d) == ToString(d[1]) \o "-" \o Pad2(d[2]) \o "-" \o Pad2(d[3])

\* the text an f-string puts for the value: str(x)
Render(x) ==
    CASE x.t = "null" -> "None"
      [] x.t = "int" -> ToString(x.v)
      [] x.t = "float" -> FloatStr(x.v)
      [] x.t = "str" -> x.v
      [] x.t = "date" -> DateStr(x.v)
      [] x.t = "ts" -> DateStr(x.v.date) \o "T" \o Pad2(x.v.min \div 60) \o ":" \o Pad2(x.v.min % 60)
      [] x.t = "list" -> "[...]"
      [] x.t = "dict" -> "{...}"
      [] OTHER -> ""

\* format_duration: None gives "N/A"; a number gives "7h 40m" or "40m";
\* anything else makes seconds // 3600 raise TypeError
format_duration(seconds) ==
    CASE seconds.t = "null" -> NA
      [] seconds.t = "int" ->
            LET hours == seconds.v \div 3600
                minutes == (seconds.v % 3600) \div 60
            IN  IF hours > 0 THEN StrV(ToString(hours) \o "h " \o ToString(minutes) \o "m")
                ELSE StrV(ToString(minutes) \o "m")
      [] seconds.t = "float" ->
            LET hours == seconds.v \div 360000
                minutes == (seconds.v % 360000) \div 6000
            IN  IF hours > 0 THEN StrV(ToString(hours) \o ".0h " \o ToString(minutes) \o ".0m")
                ELSE StrV(ToString(minutes) \o ".0m")
      [] OTHER -> Raise

\* format_time: falsy gives "N/A"; an ISO timestamp gives "2:01 AM"; whatever
\* fails to parse is returned as it came (bare except)
format_time(iso_string) ==
    IF iso_string.t = "raise" THEN Raise
    ELSE IF ~Truthy(iso_string) THEN NA
    ELSE IF iso_string.t = "ts" THEN
        LET hour == iso_string.v.min \div 60
            h12 == IF hour % 12 = 0 THEN 12 ELSE hour % 12
        IN  StrV(ToString(h12) \o ":" \o Pad2(iso_string.v.min % 60) \o
                 (IF hour < 12 THEN " AM" ELSE " PM"))
    ELSE iso_string

MonthAbbr ==
    <<"Jan", "Feb", "Mar", "Apr", "May", "Jun", "Jul", "Aug", "Sep", "Oct", "Nov", "Dec">>

\* format_date_short: falsy gives "N/A"; YYYY-MM-DD gives "Dec 26"; whatever
\* fails to parse is returned as it came (bare except)
format_date_short(date_str) ==
    IF date_str.t = "raise" THEN Raise
    ELSE IF ~Truthy(date_str) THEN NA
    ELSE IF date_str.t = "date" THEN StrV(MonthAbbr[date_str.v[2]] \o " " \o ToString(date_str.v[3]))
    ELSE date_str

\* f"{steps:,}"
RECURSIVE Thousands(_)
Thousands(n) ==
    IF n < 0 THEN "-" \o Thousands(-n)
    ELSE IF n < 1000 THEN ToString(n)
    ELSE Thousands(n \div 1000) \o "," \o Pad3(n % 1000)

\* f"{temp_dev:+.2f}" of hundredths h, followed by the degree sign (written *) and C
SignedTwoDecimals(h) ==
    (IF h < 0 THEN "-" ELSE "+") \o ToString(Abs(h) \div 100) \o "." \o Pad2(Abs(h) % 100) \o "*C"

(***************************************************************************)
(* email_service.py: format_oura_report                                    *)
(***************************************************************************)
\* x.get("data", [{}])[0] if x.get("data") else {}   with x = oura_data.get(key, {})
FirstRecord(oura_data, key) ==
    LET slot == PyGet(oura_data, key, EmptyDict)
        cond == PyGet(slot, "data", None)
    IN  IF cond.t = "raise" THEN Raise
        ELSE IF Truthy(cond) THEN PyIndex0(PyGet(slot, "data", ListV(<<EmptyDict>>)))
        ELSE EmptyDict

\* a loop that breaks at the first period without looking at its type
FirstOfAnyType(periods, i) ==
    IF i > Len(periods) THEN EmptyDict ELSE periods[i]

\* the for loop over sleep_periods["data"]: the first period whose type is
\* "long_sleep"; {} when the loop ends without a break; period.get raises on
\* an entry that is no dict
RECURSIVE FirstLongSleep(_, _)
FirstLongSleep(periods, i) ==
    IF i > Len(periods) THEN EmptyDict
    ELSE LET typ == PyGet(periods[i], "type", None)
         IN  IF typ.t = "raise" THEN Raise
             ELSE IF typ.t = "str" /\ typ.v = "long_sleep" THEN periods[i]
             ELSE FirstLongSleep(periods, i + 1)

\* the record the sleep section is built from
SelectPeriod(oura_data) ==
    LET sleep_periods == PyGet(oura_data, "sleep_periods", EmptyDict)
        d == PyGet(sleep_periods, "data", None)
    IN  IF d.t = "raise" THEN Raise
        ELSE IF ~Truthy(d) THEN EmptyDict
        ELSE IF d.t # "list" THEN Raise
        ELSE LET found == FirstLongSleep(d.v, 1)
             IN  IF found.t = "raise" THEN Raise
                 ELSE IF ~Truthy(found) THEN d.v[1]
                 ELSE found

\* workouts.get("data", []) if workouts else []
WorkoutList(oura_data) ==
    LET workouts == PyGet(oura_data, "workouts", EmptyDict)
    IN  IF Truthy(workouts) THEN PyGet(workouts, "data", ListV(<<>>)) ELSE ListV(<<>>)

\* latency_sec // 60 if latency_sec else 0
LatencyMin(latency_sec) ==
    CASE latency_sec.t = "raise" -> Raise
      [] ~Truthy(latency_sec) -> IntV(0)
      [] latency_sec.t = "int" -> IntV(latency_sec.v \div 60)
      [] latency_sec.t = "float" -> FloatV((latency_sec.v \div 6000) * 100)
      [] OTHER -> Raise

\* temp_dev = f"{temp_dev:+.2f}°C" if it is an int or a float
TempDev(x) ==
    CASE x.t = "int" -> StrV(SignedTwoDecimals(x.v * 100))
      [] x.t = "float" -> StrV(SignedTwoDecimals(x.v))
      [] OTHER -> x

\* steps = f"{steps:,}" if it is an int
Steps(x) == IF x.t = "int" THEN StrV(Thousands(x.v)) ELSE x

\* format_duration(x) if x else "0m"
DurationOrZero(x) ==
    IF x.t = "raise" THEN Raise
    ELSE IF Truthy(x) THEN format_duration(x)
    ELSE StrV("0m")

\* one line of the WORKOUTS section
WorkoutLine(w) ==
    [activity |-> PyGet(w, "activity", StrV("Unknown")),
     calories |-> PyGet(w, "calories", NA),
     duration |-> format_duration(PyGet(w, "duration", IntV(0)))]

\* The values format_oura_report puts into the report, in the order of the
\* template, before they are turned into text.
ReportValues(oura_data) ==
    LET date == PyGet(oura_data, "date", StrV("Unknown"))
        activity_date == PyGet(oura_data, "activity_date", date)
        sleep_data == FirstRecord(oura_data, "daily_sleep")
        period_data == SelectPeriod(oura_data)
        activity_data == FirstRecord(oura_data, "daily_activity")
        readiness_data == FirstRecord(oura_data, "daily_readiness")
        stress_data == FirstRecord(oura_data, "daily_stress")
        sleep_contrib == PyGet(sleep_data, "contributors", EmptyDict)
        readiness_contrib == PyGet(readiness_data, "contributors", EmptyDict)
    IN  [date |-> date,
         sleep_score |-> PyGet(sleep_data, "score", NA),
         activity_score |-> PyGet(activity_data, "score", NA),
         readiness_score |-> PyGet(readiness_data, "score", NA),
         date_short |-> format_date_short(date),
         bedtime_start |-> format_time(PyGet(period_data, "bedtime_start", StrV(""))),
         bedtime_end |-> format_time(PyGet(period_data, "bedtime_end", StrV(""))),
         time_in_bed |-> format_duration(PyGet(period_data, "time_in_bed", IntV(0))),
         total_sleep |-> format_duration(PyGet(period_data, "total_sleep_duration", IntV(0))),
         latency_min |-> LatencyMin(PyGet(period_data, "latency", IntV(0))),
         deep_duration |-> format_duration(PyGet(period_data, "deep_sleep_duration", IntV(0))),
         rem_duration |-> format_duration(PyGet(period_data, "rem_sleep_duration", IntV(0))),
         light_duration |-> format_duration(PyGet(period_data, "light_sleep_duration", IntV(0))),
         contrib_deep_sleep |-> PyGet(sleep_contrib, "deep_sleep", NA),
         contrib_rem_sleep |-> PyGet(sleep_contrib, "rem_sleep", NA),
         contrib_timing |-> PyGet(sleep_contrib, "timing", NA),
         contrib_efficiency |-> PyGet(sleep_contrib, "efficiency", NA),
         contrib_restfulness |-> PyGet(sleep_contrib, "restfulness", NA),
         contrib_latency |-> PyGet(sleep_contrib, "latency", NA),
         contrib_total_sleep |-> PyGet(sleep_contrib, "total_sleep", NA),
         avg_hr |-> PyGet(period_data, "average_heart_rate", NA),
         lowest_hr |-> PyGet(period_data, "lowest_heart_rate", NA),
         avg_hrv |-> PyGet(period_data, "average_hrv", NA),
         avg_breath |-> PyGet(period_data, "average_breath", NA),
         restless |-> PyGet(period_data, "restless_periods", NA),
         temp_dev |-> TempDev(PyGet(readiness_data, "temperature_deviation", NA)),
         contrib_hrv_balance |-> PyGet(readiness_contrib, "hrv_balance", NA),
         contrib_sleep_balance |-> PyGet(readiness_contrib, "sleep_balance", NA),
         contrib_previous_night |-> PyGet(readiness_contrib, "previous_night", NA),
         contrib_recovery_index |-> PyGet(readiness_contrib, "recovery_index", NA),
         activity_date_short |-> format_date_short(activity_date),
         steps |-> Steps(PyGet(activity_data, "steps", NA)),
         active_cal |-> PyGet(activity_data, "active_calories", NA),
         low_activity |-> format_duration(PyGet(activity_data, "low_activity_time", IntV(0))),
         med_activity |-> format_duration(PyGet(activity_data, "medium_activity_time", IntV(0))),
         high_activity |-> format_duration(PyGet(activity_data, "high_activity_time", IntV(0))),
         stress_summary |-> PyGet(stress_data, "day_summary", NA),
         recovery_time |-> DurationOrZero(PyGet(stress_data, "recovery_high", IntV(0))),
         stress_time |-> DurationOrZero(PyGet(stress_data, "stress_high", IntV(0)))]

\* the WORKOUTS section: a Raise, or the list of its lines (empty: "None logged")
WorkoutValues(oura_data) ==
    LET workout_list == WorkoutList(oura_data)
    IN  IF workout_list.t = "raise" THEN Raise
        ELSE IF ~Truthy(workout_list) THEN ListV(<<>>)
        ELSE IF workout_list.t # "list" THEN Raise
        ELSE LET lines == [i \in DOMAIN workout_list.v |-> WorkoutLine(workout_list.v[i])]
             IN  IF \E i \in DOMAIN lines :
                        \/ lines[i].activity.t = "raise"
                        \/ lines[i].calories.t = "raise"
                        \/ lines[i].duration.t = "raise"
                 THEN Raise
                 ELSE ListV(lines)

\* the report built from the values: [raised |-> an exception left the
\* function, period |-> the sleep period selected, text |-> the text put for
\* each placeholder of the template, workouts |-> the lines of the WORKOUTS section]
BuildReport(vals, ws, period_data) ==
    IF (\E k \in DOMAIN vals : vals[k].t = "raise") \/ ws.t = "raise"
    THEN [raised |-> TRUE, period |-> None, text |-> <<>>, workouts |-> <<>>]
    ELSE [raised |-> FALSE,
          period |-> period_data,
          text |-> [k \in DOMAIN vals |-> Render(vals[k])],
          workouts |->
              IF Len(ws.v) = 0 THEN <<"None logged">>
              ELSE [i \in DOMAIN ws.v |->
                      Render(ws.v[i].activity) \o ": " \o Render(ws.v[i].duration)
                      \o ", " \o Render(ws.v[i].calories) \o " cal"]]

\* format_oura_report (each of the three parts is computed once and handed on
\* as a value)
format_oura_report(oura_data) ==
    CHOOSE report \in
        {BuildReport(vals, ws, period_data) :
            vals \in {ReportValues(oura_data)},
            ws \in {WorkoutValues(oura_data)},
            period_data \in {SelectPeriod(oura_data)}} : TRUE

\* format_html_report: the text report inside the fixed HTML wrapper
format_html_report(oura_data) ==
    LET text_report == format_oura_report(oura_data)
    IN  [raised |-> text_report.raised, pre |-> text_report]

(***************************************************************************)
(* email_service.py: EmailService                                          *)
(***************************************************************************)
\* what the SMTP exchange of send_email meets: it goes through, or the
\* connection, the login or the transmission raises
SmtpOutcomes == {"ok", "connect_failed", "login_failed", "sendmail_failed"}

\* EmailService.send_email: every exception of the SMTP block is caught and
\* turned into False
send_email(recipient, subject, body_text, body_html, smtp) == smtp = "ok"

\* EmailService.send_oura_data: [raised |-> an exception left the function,
\* attempted |-> send_email was called, ret |-> the value returned]
send_oura_data(recipient, oura_data, smtp) ==
    LET date == PyGet(oura_data, "date", StrV("Unknown"))
        subject == "Oura Daily Report - " \o Render(date)
        body_text == format_oura_report(oura_data)
        body_html == format_html_report(oura_data)
    IN  IF body_text.raised \/ body_html.raised
        THEN [raised |-> TRUE, attempted |-> FALSE, ret |-> FALSE]
        ELSE [raised |-> FALSE, attempted |-> TRUE,
              ret |-> send_email(recipient, subject, body_text, body_html, smtp)]

(***************************************************************************)
(* The inputs: what the clock, the Oura API and the SMTP server may do.    *)
(***************************************************************************)
\* The four clock readings of one get_todays_data call entered at t0: each
\* at or after the one before, the last at most MaxCallMinutes after t0.
ClockReadings(t0) ==
    {[i \in 1..4 |-> AddMinutes(t0, o[i])] :
        o \in {f \in [1..4 -> 0..MaxCallMinutes] : \A i \in 1..3 : f[i] <= f[i + 1]}}

\* a fully populated record of each category, as the API documents it
FullRecord(c) ==
    CASE c = "daily_sleep" ->
            [score |-> IntV(85),
             contributors |-> DictV([deep_sleep |-> IntV(90), efficiency |-> IntV(88),
                                     latency |-> IntV(70), rem_sleep |-> IntV(75),
                                     restfulness |-> IntV(80), timing |-> IntV(95),
                                     total_sleep |-> IntV(82)])]
      [] c = "sleep_periods" ->
            [type |-> StrV("long_sleep"),
             bedtime_start |-> TimeV([date |-> <<2024, 12, 27>>, min |-> 121]),
             bedtime_end |-> TimeV([date |-> <<2024, 12, 27>>, min |-> 581]),
             time_in_bed |-> IntV(27600), total_sleep_duration |-> IntV(25200),
             latency |-> IntV(540), deep_sleep_duration |-> IntV(5400),
             rem_sleep_duration |-> IntV(6000), light_sleep_duration |-> IntV(13800),
             average_heart_rate |-> FloatV(5825), lowest_heart_rate |-> IntV(51),
             average_hrv |-> IntV(44), average_breath |-> FloatV(1450),
             restless_periods |-> IntV(210)]
      [] c = "daily_readiness" ->
            [score |-> IntV(77), temperature_deviation |-> FloatV(34),
             contributors |-> DictV([hrv_balance |-> IntV(71), sleep_balance |-> IntV(83),
                                     previous_night |-> IntV(79), recovery_index |-> IntV(100)])]
      [] c = "daily_activity" ->
            [score |-> IntV(91), steps |-> IntV(12345), active_calories |-> IntV(480),
             low_activity_time |-> IntV(14400), medium_activity_time |-> IntV(2400),
             high_activity_time |-> IntV(0)]
      [] c = "daily_stress" ->
            [day_summary |-> StrV("normal"), recovery_high |-> IntV(4500), stress_high |-> IntV(0)]
      [] c = "workouts" ->
            [activity |-> StrV("running"), calories |-> IntV(300), duration |-> IntV(1800)]
      [] c = "sleep_time" ->
            [status |-> StrV("not_enough_nights")]

\* the record with every value null; the sub-scores of a contributors mapping
\* null inside a mapping that is present
NullRecord(c) ==
    LET r == FullRecord(c)
    IN  [k \in DOMAIN r |->
            IF r[k].t = "dict" THEN DictV([j \in DOMAIN r[k].v |-> None]) ELSE None]

\* the record with its contributors mapping null
NullContributors(c) ==
    LET r == FullRecord(c)
    IN  [k \in DOMAIN r |-> IF r[k].t = "dict" THEN None ELSE r[k]]

\* the shapes a successful answer may have
Profiles == {"full", "sparse", "empty", "nulls", "null_contributors", "null_entry"}

\* the JSON body the API answers with for category c
Body(c, profile) ==
    CASE profile = "full" -> DictV([data |-> ListV(<<DictV(FullRecord(c))>>), next_token |-> None])
      [] profile = "sparse" -> DictV([data |-> ListV(<<EmptyDict>>), next_token |-> None])
      [] profile = "empty" -> DictV([data |-> ListV(<<>>), next_token |-> None])
      [] profile = "nulls" -> DictV([data |-> ListV(<<DictV(NullRecord(c))>>), next_token |-> None])
      [] profile = "null_contributors" ->
            DictV([data |-> ListV(<<DictV(NullContributors(c))>>), next_token |-> None])
      [] profile = "null_entry" -> DictV([data |-> ListV(<<None>>), next_token |-> None])

\* the ways one category's request may fail
Failures ==
    {NetworkError, HttpError(401), HttpError(429),
     NotJson("RequestsJSONDecodeError"), NotJson("ValueError")}

\* What the API does in one call: at most MaxFailures categories fail, each
\* in one of the given ways; the others answer with a body of the profile.
Exchanges(profiles, failures) ==
    UNION {
        UNION {
            {[c \in CategorySet |-> IF c \in F THEN k[c] ELSE OkResponse(Body(c, p))] :
                k \in [F -> failures]}
            : F \in {G \in SUBSET CategorySet : Cardinality(G) <= MaxFailures}}
        : p \in profiles}

(***************************************************************************)
(* main.py: load_config                                                    *)
(***************************************************************************)
\* an environment variable that is not set (os.getenv gives None)
Unset == "<unset>"

\* os.getenv(name, default)
Getenv(e, name, default) == IF e[name] = Unset THEN default ELSE e[name]

\* int(s): [ok |-> FALSE] stands for ValueError
ParseInt(s) ==
    CASE s = "587" -> [ok |-> TRUE, n |-> 587]
      [] s = "465" -> [ok |-> TRUE, n |-> 465]
      [] s = "25" -> [ok |-> TRUE, n |-> 25]
      [] OTHER -> [ok |-> FALSE, n |-> 0]

\* not x, for x a str or None
Falsy(x) == x = Unset \/ x = ""

\* the names load_config collects in missing, in the order it appends them
Missing(e) ==
    (IF Falsy(e["OURA_ACCESS_TOKEN"]) THEN <<"OURA_ACCESS_TOKEN">> ELSE <<>>) \o
    (IF Falsy(e["SENDER_EMAIL"]) THEN <<"SENDER_EMAIL">> ELSE <<>>) \o
    (IF Falsy(e["SENDER_PASSWORD"]) THEN <<"SENDER_PASSWORD">> ELSE <<>>)

\* load_config: [exit |-> the status the process exits with ("none": it goes
\* on), printed |-> the lines printed, config |-> the dict returned].
\* int(SMTP_PORT) is evaluated while the dict is built, before the validation:
\* its ValueError is caught nowhere, so the interpreter prints the traceback
\* and exits with status 1.
load_config(e) ==
    LET port == ParseInt(Getenv(e, "SMTP_PORT", "587"))
        missing == Missing(e)
        cfg == [oura_token |-> e["OURA_ACCESS_TOKEN"],
                smtp_server |-> "smtp.gmail.com",
                smtp_port |-> port.n,
                sender_email |-> e["SENDER_EMAIL"],
                sender_password |-> e["SENDER_PASSWORD"],
                recipient_email |-> "cooperpenniman@gmail.com",
                schedule_time |-> Getenv(e, "SCHEDULE_TIME", "10:00")]
    IN  IF ~port.ok
            THEN [exit |-> "1", config |-> cfg,
                  printed |-> <<[line |-> "Traceback: ValueError", names |-> <<>>]>>]
        ELSE IF Len(missing) > 0
            THEN [exit |-> "1", config |-> cfg,
                  printed |-> <<[line |-> "Error: Missing required environment variables", names |-> missing],
                                [line |-> "Please update your .env file", names |-> <<>>]>>]
        ELSE [exit |-> "none", config |-> cfg, printed |-> <<>>]

(***************************************************************************)
(* The schedule library as run_scheduler uses it:                          *)
(* schedule.every().day.at(T).do(job) and schedule.run_pending().          *)
(***************************************************************************)
\* the "HH:MM" strings at() is given, as minutes of the day
ParseAtTime(s) ==
    CASE s = "00:00" -> 0
      [] s = "10:00" -> 10 * 60
      [] s = "23:59" -> 23 * 60 + 59

\* a scheduling that takes today's T while the clock already shows T
NextAtInclusive(t, T) ==
    IF t.min <= T THEN [date |-> t.date, min |-> T]
    ELSE [date |-> NextDay(t.date), min |-> T]

\* a scheduling that takes today's T even when it has passed
NextAtToday(t, T) == [date |-> t.date, min |-> T]

\* Job._schedule_next_run for every().day.at(T): the first instant strictly
\* after t whose time of day is T (today's if T is still ahead, else tomorrow's)
NextAt(t, T) ==
    IF t.min < T THEN [date |-> t.date, min |-> T]
    ELSE [date |-> NextDay(t.date), min |-> T]

\* Job.should_run: datetime.now() >= self.next_run
ShouldRun(j, t) == TimeLeq(j.next_run, t)

\* time.sleep(60), in minutes
SleepSeconds == 60
SleepMinutes == SleepSeconds \div 60

(***************************************************************************)
(* The state machine.                                                      *)
(***************************************************************************)
NoTime == [date |-> <<0, 0, 0>>, min |-> 0]
NoJob == [scheduled |-> FALSE, next_run |-> NoTime, last_run |-> NoTime]
NoFetch == [called |-> FALSE, entry |-> NoTime, reads |-> <<>>, resp |-> <<>>,
            data |-> <<>>, log |-> <<>>, raised |-> "none", ret |-> FALSE]
NoRun == [called |-> FALSE, smtp |-> "ok", raised |-> "none", attempted |-> FALSE, ret |-> FALSE]
NoFmt == [called |-> FALSE, input |-> EmptyDict,
          result |-> [raised |-> FALSE, period |-> None, text |-> <<>>, workouts |-> <<>>]]
NoHist == [start |-> NoTime, polls |-> 0, poll |-> NoTime, started |-> FALSE, runs |-> 0,
           lastStart |-> NoTime, days |-> 0]
NoOut == [exit |-> "running", printed |-> <<>>, dispatched |-> "", requests |-> 0, mails |-> 0]
NoConfig == [oura_token |-> Unset, smtp_server |-> "", smtp_port |-> 0, sender_email |-> Unset,
             sender_password |-> Unset, recipient_email |-> "", schedule_time |-> ""]

\* a complete environment
GoodEnv ==
    [OURA_ACCESS_TOKEN |-> "token", SENDER_EMAIL |-> "me@example.com",
     SENDER_PASSWORD |-> "secret", SMTP_PORT |-> Unset, SCHEDULE_TIME |-> Unset]

\* the record kept of a get_todays_data call
FetchRecord(t0, reads, resp, r) ==
    [called |-> TRUE, entry |-> t0, reads |-> reads, resp |-> resp,
     data |-> r.data, log |-> r.log, raised |-> r.raised, ret |-> r.raised = "none"]

\* the record kept of a send_oura_data call
RunRecord(smtp, r) ==
    [called |-> TRUE, smtp |-> smtp, raised |-> IF r.raised THEN "FormatterError" ELSE "none",
     attempted |-> r.attempted, ret |-> r.ret]

\* if __name__ == "__main__": config = load_config()
LoadConfig ==
    /\ pc = "start"
    /\ LET r == load_config(env)
       IN  /\ out' = [out EXCEPT !.printed = @ \o r.printed,
                                 !.exit = IF r.exit = "none" THEN @ ELSE r.exit]
           /\ config' = IF r.exit = "none" THEN r.config ELSE config
           /\ pc' = IF r.exit = "none" THEN "configured" ELSE "exited"
    /\ UNCHANGED <<now, env, argv, job, fetch, run, fmt, hist>>

\* the if/elif chain on sys.argv[1]; no argument means the scheduler
Dispatch ==
    /\ pc = "configured"
    /\ \/ /\ argv \in {"test", "now", "schedule"}
          /\ pc' = argv
          /\ out' = [out EXCEPT !.dispatched = argv]
       \/ /\ argv = ""
          /\ pc' = "schedule"
          /\ out' = [out EXCEPT !.dispatched = "schedule"]
       \/ /\ argv \notin {"test", "now", "schedule", ""}
          /\ pc' = "exited"
          /\ out' = [out EXCEPT !.dispatched = "usage", !.exit = "0",
                                !.printed = @ \o <<[line |-> "Unknown command", names |-> <<argv>>]>>]
    /\ UNCHANGED <<now, env, config, argv, job, fetch, run, fmt, hist>>

\* test_oura_connection, called with its result dropped: the process ends
\* with status 0 whatever it returned
TestOuraConnection(exchanges) ==
    /\ pc = "test"
    /\ \E reads \in ClockReadings(now), resp \in exchanges :
          \E r \in {GetTodaysData(reads, resp)} :
              /\ fetch' = FetchRecord(now, reads, resp, r)
              /\ now' = reads[4]
              /\ out' = [out EXCEPT !.requests = @ + Len(r.log), !.exit = "0",
                            !.printed = @ \o <<[line |-> IF r.raised = "none"
                                                         THEN "Successfully connected to Oura API!"
                                                         ELSE "Failed to connect",
                                                names |-> <<>>]>>]
    /\ pc' = "exited"
    /\ UNCHANGED <<env, config, argv, job, run, fmt, hist>>

\* run_once calls send_daily_report, which builds its two clients
RunOnce ==
    /\ pc = "now"
    /\ pc' = "fetching"
    /\ UNCHANGED <<now, env, config, argv, out, job, fetch, run, fmt, hist>>

\* send_daily_report: data = oura.get_todays_data().  An exception that
\* leaves get_todays_data leaves send_daily_report too.
FetchData(exchanges) ==
    /\ pc = "fetching"
    /\ \E reads \in ClockReadings(now), resp \in exchanges :
          \E r \in {GetTodaysData(reads, resp)} :
              LET crossed == IF reads[4].date # now.date THEN 1 ELSE 0
              IN  /\ hist.days + crossed <= MaxDays
                  /\ fetch' = FetchRecord(now, reads, resp, r)
                  /\ now' = reads[4]
                  /\ hist' = [hist EXCEPT !.days = @ + crossed]
                  /\ out' = [out EXCEPT !.requests = @ + Len(r.log)]
                  /\ pc' = IF r.raised = "none" THEN "sending" ELSE "raised"
    /\ UNCHANGED <<env, config, argv, job, run, fmt>>

\* send_daily_report: success = email.send_oura_data(recipient, data), then
\* the two prints and return success.  An exception that leaves
\* send_oura_data leaves send_daily_report too.
SendReport(smtps) ==
    /\ pc = "sending"
    /\ \E smtp \in smtps :
          \E r \in {send_oura_data(config.recipient_email, DictV(fetch.data), smtp)} :
              /\ run' = RunRecord(smtp, r)
              /\ out' = [out EXCEPT !.mails = @ + (IF r.attempted THEN 1 ELSE 0)]
              /\ pc' = IF r.raised THEN "raised" ELSE "returned"
    /\ UNCHANGED <<now, env, config, argv, job, fetch, fmt, hist>>

\* the now command ends: normally, or by the exception nothing caught
RunOnceDone ==
    /\ pc \in {"returned", "raised"}
    /\ out.dispatched = "now"
    /\ out' = [out EXCEPT !.exit = IF pc = "returned" THEN "0" ELSE "1"]
    /\ pc' = "exited"
    /\ UNCHANGED <<now, env, config, argv, job, fetch, run, fmt, hist>>

\* run_scheduler up to the loop: schedule.every().day.at(schedule_time).do(...)
ScheduleJob ==
    /\ pc = "schedule"
    /\ job' = [scheduled |-> TRUE,
               next_run |-> NextAt(now, ParseAtTime(config.schedule_time)),
               last_run |-> NoTime]
    /\ hist' = [hist EXCEPT !.start = now]
    /\ pc' = "poll"
    /\ UNCHANGED <<now, env, config, argv, out, fetch, run, fmt>>

\* what hist records of the poll made at now
Polled(started) ==
    [hist EXCEPT !.polls = IF @ < 2 THEN @ + 1 ELSE @,
                 !.poll = now,
                 !.started = started,
                 !.runs = IF started THEN @ + 1 ELSE @,
                 !.lastStart = IF started THEN now ELSE @]

\* schedule.run_pending() when the job is not due: nothing runs
RunPendingIdle ==
    /\ pc = "poll"
    /\ ~ShouldRun(job, now)
    /\ hist' = Polled(FALSE)
    /\ pc' = "sleep"
    /\ UNCHANGED <<now, env, config, argv, out, job, fetch, run, fmt>>

\* schedule.run_pending() when the job is due: Job.run calls
\* send_daily_report(config), which starts on a fresh payload
RunPendingDue ==
    /\ pc = "poll"
    /\ ShouldRun(job, now)
    /\ hist' = Polled(TRUE)
    /\ fetch' = NoFetch
    /\ run' = NoRun
    /\ pc' = "fetching"
    /\ UNCHANGED <<now, env, config, argv, out, job, fmt>>

\* Job.run after the job returned: last_run = now, then _schedule_next_run;
\* run_pending returns and the loop goes to sleep.  The payload and the
\* result were locals of send_daily_report: nothing of the run is kept.
JobDone ==
    /\ pc = "returned"
    /\ out.dispatched = "schedule"
    /\ job' = [scheduled |-> TRUE,
               next_run |-> NextAt(now, ParseAtTime(config.schedule_time)),
               last_run |-> now]
    /\ fetch' = NoFetch
    /\ run' = NoRun
    /\ pc' = "sleep"
    /\ UNCHANGED <<now, env, config, argv, out, fmt, hist>>

\* Job.run, run_pending and run_scheduler catch nothing: an exception the
\* job raises leaves the loop and ends the process
JobRaised ==
    /\ pc = "raised"
    /\ out.dispatched = "schedule"
    /\ out' = [out EXCEPT !.exit = "1"]
    /\ pc' = "exited"
    /\ UNCHANGED <<now, env, config, argv, job, fetch, run, fmt, hist>>

\* time.sleep(60): the next poll comes a minute later, or up to MaxJitter more
Sleep ==
    /\ pc = "sleep"
    /\ \E j \in 0..MaxJitter :
          LET t == AddMinutes(now, SleepMinutes + j)
              crossed == IF t.date # now.date THEN 1 ELSE 0
          IN  /\ hist.days + crossed <= MaxDays
              /\ now' = t
              /\ hist' = [hist EXCEPT !.days = @ + crossed]
    /\ pc' = "poll"
    /\ UNCHANGED <<env, config, argv, out, job, fetch, run, fmt>>

\* one call of format_oura_report on the payload in fmt.input
FormatReport ==
    /\ pc = "format"
    /\ fmt' = [fmt EXCEPT !.called = TRUE, !.result = format_oura_report(fmt.input)]
    /\ pc' = "formatted"
    /\ UNCHANGED <<now, env, config, argv, out, job, fetch, run, hist>>

(***************************************************************************)
(* Payloads given to format_oura_report.                                   *)
(***************************************************************************)
\* how many sleep periods a day's list may hold
MaxPeriods == 3

\* the payload get_todays_data returns when every request succeeds with the profile
BasePayload(p) ==
    LET t0 == [date |-> <<2024, 12, 27>>, min |-> 10 * 60]
    IN  GetTodaysData([i \in 1..4 |-> t0], [c \in CategorySet |-> OkResponse(Body(c, p))]).data

\* the i-th sleep period of a list, tagged tag ("" for no type key, "null"
\* for a null one); restless_periods tells the periods of a list apart
Period(i, tag) ==
    LET r == [FullRecord("sleep_periods") EXCEPT !.restless_periods = IntV(i),
                                                  !.type = IF tag = "null" THEN None ELSE StrV(tag)]
    IN  DictV(IF tag = "" THEN [k \in DOMAIN r \ {"type"} |-> r[k]] ELSE r)

PeriodTags == {"long_sleep", "rest", "late_nap", "", "null"}

\* the sleep-period lists of up to MaxPeriods records
PeriodLists ==
    UNION {{[i \in 1..n |-> Period(i, tags[i])] : tags \in [1..n -> PeriodTags]} : n \in 0..MaxPeriods}

\* what a slot may hold besides the bodies of the profiles
OddSlots == {None, ErrorMarker("429 Error"), DictV([data |-> None]), EmptyDict}

\* the payloads: a base payload with one slot replaced or removed, and the
\* full payload with each sleep-period list
FormatInputs ==
    UNION {
        UNION {
            {DictV([BasePayload(p) EXCEPT ![c] = x]) :
                x \in OddSlots \cup {Body(c, q) : q \in Profiles}}
            \cup {DictV([k \in DOMAIN BasePayload(p) \ {c} |-> BasePayload(p)[k]])}
            : c \in CategorySet}
        : p \in {"full", "sparse", "nulls"}}
    \cup {DictV([BasePayload("full") EXCEPT !["sleep_periods"] = DictV([data |-> ListV(l)])]) :
            l \in PeriodLists}

(***************************************************************************)
(* Specifications.                                                         *)
(***************************************************************************)
\* --- get_todays_data, as the test command calls it -----------------------
\* entered a minute before midnight on the last day of a year and of a leap
\* February, and in the morning of the first day of a year and of a March
FetchStarts ==
    {[date |-> <<2024, 12, 31>>, min |-> MinutesPerDay - 1],
     [date |-> <<2024, 2, 29>>, min |-> MinutesPerDay - 1],
     [date |-> <<2025, 1, 1>>, min |-> 10 * 60],
     [date |-> <<2025, 3, 1>>, min |-> 0]}

InitFetch ==
    /\ pc = "test"
    /\ now \in FetchStarts
    /\ config = load_config(GoodEnv).config
    /\ env = GoodEnv
    /\ argv = "test"
    /\ out = [NoOut EXCEPT !.dispatched = "test"]
    /\ job = NoJob
    /\ fetch = NoFetch
    /\ run = NoRun
    /\ fmt = NoFmt
    /\ hist = NoHist

\* one process runs one requests release: the bodies that are not JSON all
\* raise the same exception class
OneBuild(x) == Cardinality({x[c].jsonexc : c \in CategorySet} \ {"none"}) <= 1

\* the network is down for the whole call: every request fails
AllDown == [c \in CategorySet |-> NetworkError]

\* every category answers in full or fails, at most MaxFailures of them
\* failing, or all of them with the network down
FetchExchanges ==
    {x \in Exchanges({"full"}, Failures) : OneBuild(x)} \cup {AllDown}

NextFetch == TestOuraConnection(FetchExchanges)

SpecFetch == InitFetch /\ [][NextFetch]_vars

\* --- one run, as the now command makes it --------------------------------
\* the failures of a build whose requests raises only RequestExceptions
RunFailures == {NetworkError, HttpError(429), NotJson("RequestsJSONDecodeError")}

InitRun ==
    /\ pc = "now"
    /\ now = [date |-> <<2025, 1, 1>>, min |-> 10 * 60]
    /\ config = load_config(GoodEnv).config
    /\ env = GoodEnv
    /\ argv = "now"
    /\ out = [NoOut EXCEPT !.dispatched = "now"]
    /\ job = NoJob
    /\ fetch = NoFetch
    /\ run = NoRun
    /\ fmt = NoFmt
    /\ hist = NoHist

\* what the run's requests may meet
RunExchanges == Exchanges({"full", "nulls", "null_contributors"}, RunFailures)

NextRun ==
    \/ RunOnce
    \/ FetchData(RunExchanges)
    \/ SendReport(SmtpOutcomes)
    \/ RunOnceDone

SpecRun == InitRun /\ [][NextRun]_vars

\* --- format_oura_report ---------------------------------------------------
InitFormat ==
    /\ pc = "format"
    /\ now = [date |-> <<2024, 12, 27>>, min |-> 10 * 60]
    /\ config = load_config(GoodEnv).config
    /\ env = GoodEnv
    /\ argv = ""
    /\ out = NoOut
    /\ job = NoJob
    /\ fetch = NoFetch
    /\ run = NoRun
    /\ hist = NoHist
    /\ \E x \in FormatInputs : fmt = [NoFmt EXCEPT !.input = x]

NextFormat == FormatReport

SpecFormat == InitFormat /\ [][NextFormat]_vars

\* --- the scheduler --------------------------------------------------------
AtTimes == {"00:00", "10:00", "23:59"}

\* the process is started two minutes and one minute before the trigger
\* time of 2024-12-30, at it, and a minute after it
SchedStarts(T) ==
    LET before == AddMinutes([date |-> <<2024, 12, 29>>, min |-> ParseAtTime(T)], MinutesPerDay - 2)
    IN  {AddMinutes(before, k) : k \in 0..3}

\* what a scheduled run may meet: everything succeeds; one category fails;
\* a body whose contributors mapping is null
SchedExchanges ==
    {[c \in CategorySet |-> OkResponse(Body(c, "full"))],
     [c \in CategorySet |-> IF c = "daily_activity" THEN NetworkError ELSE OkResponse(Body(c, "full"))],
     [c \in CategorySet |-> OkResponse(Body(c, "null_contributors"))]}

SchedSmtps == {"ok", "login_failed"}

InitSched ==
    /\ pc = "schedule"
    /\ \E T \in AtTimes :
          /\ now \in SchedStarts(T)
          /\ config = [load_config(GoodEnv).config EXCEPT !.schedule_time = T]
    /\ env = GoodEnv
    /\ argv = "schedule"
    /\ out = [NoOut EXCEPT !.dispatched = "schedule"]
    /\ job = NoJob
    /\ fetch = NoFetch
    /\ run = NoRun
    /\ fmt = NoFmt
    /\ hist = NoHist

NextSched ==
    \/ ScheduleJob
    \/ RunPendingIdle
    \/ RunPendingDue
    \/ FetchData(SchedExchanges)
    \/ SendReport(SchedSmtps)
    \/ JobDone
    \/ JobRaised
    \/ Sleep

SpecSched == InitSched /\ [][NextSched]_vars

\* --- the process from its start -------------------------------------------
Envs ==
    [OURA_ACCESS_TOKEN : {Unset, "", "token"},
     SENDER_EMAIL : {Unset, "", "me@example.com"},
     SENDER_PASSWORD : {Unset, "", "secret"},
     SMTP_PORT : {Unset, "465", "smtp"},
     SCHEDULE_TIME : {Unset, "23:59"}]

Args == {"", "test", "now", "schedule", "bogus"}

Init ==
    /\ pc = "start"
    /\ now = [date |-> <<2025, 1, 1>>, min |-> 10 * 60 - 2]
    /\ env \in Envs
    /\ argv \in Args
    /\ config = NoConfig
    /\ out = NoOut
    /\ job = NoJob
    /\ fetch = NoFetch
    /\ run = NoRun
    /\ fmt = NoFmt
    /\ hist = NoHist

\* what the one-shot commands may meet: as a scheduled run, or a body that is
\* not JSON under a build whose requests raises ValueError for it
MainExchanges ==
    SchedExchanges \cup
    {[c \in CategorySet |-> IF c = "sleep_time" THEN NotJson("ValueError") ELSE OkResponse(Body(c, "full"))]}

NextMain ==
    \/ LoadConfig
    \/ Dispatch
    \/ TestOuraConnection(MainExchanges)
    \/ RunOnce
    \/ FetchData(MainExchanges)
    \/ SendReport(SchedSmtps)
    \/ RunOnceDone
    \/ ScheduleJob

SpecMain == Init /\ [][NextMain]_vars

Next ==
    \/ NextMain
    \/ RunPendingIdle
    \/ RunPendingDue
    \/ JobDone
    \/ JobRaised
    \/ Sleep

Spec == Init /\ [][Next]_vars

(***************************************************************************)
(* Properties of the scheduler.                                            *)
(***************************************************************************)
\* the configured trigger time, as a minute of the day
TriggerMinute == ParseAtTime(config.schedule_time)

\* an instant whose time of day is T lies after p and at or before t: the
\* first such instant after p, on p's day or the next, is not after t
TInstantIn(p, t, T) ==
    LET I == [date |-> IF p.min < T THEN p.date ELSE NextDay(p.date), min |-> T]
    IN  TimeLess(p, I) /\ TimeLeq(I, t)

\* the step run_pending makes at a poll
PollStep == pc = "poll" /\ pc' # "poll"

\* C1 (as amended): a poll starts send_daily_report exactly when an instant
\* of time T lies after the previous poll and at or before this poll; the
\* first poll, made as the scheduler starts, starts nothing.  So a run never
\* starts before the T it is for, it starts at the first poll at or after each
\* T that comes after the scheduler's start, and an instant of time T lies
\* between any two starts.
C1_RunsOncePerTriggerAfterStart ==
    [][PollStep =>
         /\ hist'.started <=> (hist.polls > 0 /\ TInstantIn(hist.poll, now, TriggerMinute))
         /\ (hist'.started /\ hist.runs > 0) => TInstantIn(hist.lastStart, now, TriggerMinute)]_vars

\* C1, a case of it: the second run has started, a day after the first
C1_Witness ==
    /\ pc = "fetching"
    /\ hist.started
    /\ hist.runs = 2
    /\ hist.poll.min = TriggerMinute
    /\ hist.lastStart = hist.poll

\* C1 (as stated): whatever the start time, a run never starts before T on
\* its day, and the first poll of a day at or after T starts one
C1_AsStated ==
    [][PollStep =>
         /\ hist'.started => now.min >= TriggerMinute
         /\ (hist.polls = 0 /\ now.min >= TriggerMinute) => hist'.started
         /\ (hist.polls > 0 /\ TInstantIn(hist.poll, now, TriggerMinute)) => hist'.started]_vars

(***************************************************************************)
(* Properties of get_todays_data.                                          *)
(***************************************************************************)
\* the exchange is a network error, a rejected credential or a rate limit
ClaimedFailure(x) == x \in {NetworkError, HttpError(401), HttpError(429)}

\* the exchange succeeds
Succeeds(x) == x.net = "ok" /\ x.status = 200 /\ x.json

\* x is {"error": <some text>}
IsErrorMarker(x) == x.t = "dict" /\ DOMAIN x.v = {"error"} /\ x.v.error.t = "str"

\* C2: when each category's request succeeds or fails by a network error, an
\* auth error or a rate limit, get_todays_data returns: no exception leaves
\* it, all seven categories are requested in order, the slot of each failed
\* category holds an error marker and the slot of each succeeded category
\* holds the payload its request returned.
C2_CategoryFailureIsContained ==
    (fetch.called /\ \A c \in CategorySet : Succeeds(fetch.resp[c]) \/ ClaimedFailure(fetch.resp[c]))
    => /\ fetch.raised = "none"
       /\ fetch.ret
       /\ Len(fetch.log) = Len(Categories)
       /\ \A i \in 1..Len(Categories) :
             LET c == Categories[i]
             IN  /\ fetch.log[i].endpoint = Endpoint(c)
                 /\ ClaimedFailure(fetch.resp[c]) => IsErrorMarker(fetch.data[c])
                 /\ Succeeds(fetch.resp[c]) => fetch.data[c] = fetch.resp[c].body

\* C2, a case of it: the first request met a rate limit and the last a
\* network error, and the call returned with the five other payloads
C2_Witness ==
    /\ fetch.called
    /\ fetch.resp["daily_sleep"] = HttpError(429)
    /\ fetch.resp["sleep_time"] = NetworkError
    /\ \A c \in CategorySet \ {"daily_sleep", "sleep_time"} : Succeeds(fetch.resp[c])
    /\ fetch.raised = "none"
    /\ IsErrorMarker(fetch.data["daily_sleep"])
    /\ IsErrorMarker(fetch.data["sleep_time"])
    /\ fetch.data["workouts"] = Body("workouts", "full")

\* C5 (as stated): every payload get_todays_data returns has
\* activity_date = date - 1 day, however the clock advances during the call
C5_ActivityDateIsDayBefore ==
    (fetch.called /\ fetch.raised = "none")
    => fetch.data.activity_date.v = PrevDay(fetch.data.date.v)

\* C9 (as stated): with D the payload's date, the daily-sleep, sleep-period
\* and daily-readiness requests carry the range (D, D+1), the other four the
\* range (D-1, D), and the payload's activity_date is D-1
C9_RequestRanges ==
    fetch.called
    => LET D == Today(fetch.reads)
       IN  /\ \A i \in 1..Len(fetch.log) :
                 LET e == fetch.log[i]
                 IN  IF e.endpoint \in {Endpoint("daily_sleep"), Endpoint("sleep_periods"),
                                         Endpoint("daily_readiness")}
                         THEN e.start_date = D /\ e.end_date = NextDay(D)
                     ELSE e.start_date = PrevDay(D) /\ e.end_date = D
           /\ fetch.raised = "none" =>
                 /\ fetch.data.date.v = D
                 /\ fetch.data.activity_date.v = PrevDay(D)

(***************************************************************************)
(* Properties of one run and of the scheduler's loop around it.            *)
(***************************************************************************)
\* C3 (as stated): whatever fetches succeeded and failed, a run whose
\* get_todays_data returned formats the report, attempts the send and
\* returns True exactly when the send succeeded; it does not abort
C3_RunResultIsMailResult ==
    (pc \in {"returned", "raised"} /\ fetch.called /\ fetch.raised = "none")
    => /\ pc = "returned"
       /\ run.called
       /\ run.raised = "none"
       /\ run.attempted
       /\ run.ret = (run.smtp = "ok")

\* C4 (as stated): no outcome of a run the scheduler started ends the
\* scheduler: it is never left, whether the run returned or raised
C4_SchedulerSurvivesEveryRun ==
    (out.dispatched = "schedule" /\ hist.runs > 0)
    => pc # "exited" /\ out.exit = "running"

(***************************************************************************)
(* Properties of format_oura_report.                                       *)
(***************************************************************************)
\* C6 (as stated): format_oura_report returns a report for every payload
\* whose slots are success records, error markers, None or absent and whose
\* fields, contributors mappings, data lists and list entries may be absent
\* or null
C6_FormatterNeverRaises == fmt.called => ~fmt.result.raised

\* The fields C7 names: the placeholder of the template, the slot whose
\* record holds the field, whether it sits in the record's contributors
\* mapping, and its key.
ReportFields ==
    {[key |-> "sleep_score", slot |-> "daily_sleep", nested |-> FALSE, name |-> "score"],
     [key |-> "activity_score", slot |-> "daily_activity", nested |-> FALSE, name |-> "score"],
     [key |-> "readiness_score", slot |-> "daily_readiness", nested |-> FALSE, name |-> "score"],
     [key |-> "contrib_deep_sleep", slot |-> "daily_sleep", nested |-> TRUE, name |-> "deep_sleep"],
     [key |-> "contrib_rem_sleep", slot |-> "daily_sleep", nested |-> TRUE, name |-> "rem_sleep"],
     [key |-> "contrib_timing", slot |-> "daily_sleep", nested |-> TRUE, name |-> "timing"],
     [key |-> "contrib_efficiency", slot |-> "daily_sleep", nested |-> TRUE, name |-> "efficiency"],
     [key |-> "contrib_restfulness", slot |-> "daily_sleep", nested |-> TRUE, name |-> "restfulness"],
     [key |-> "contrib_latency", slot |-> "daily_sleep", nested |-> TRUE, name |-> "latency"],
     [key |-> "contrib_total_sleep", slot |-> "daily_sleep", nested |-> TRUE, name |-> "total_sleep"],
     [key |-> "avg_hr", slot |-> "sleep_periods", nested |-> FALSE, name |-> "average_heart_rate"],
     [key |-> "lowest_hr", slot |-> "sleep_periods", nested |-> FALSE, name |-> "lowest_heart_rate"],
     [key |-> "avg_hrv", slot |-> "sleep_periods", nested |-> FALSE, name |-> "average_hrv"],
     [key |-> "avg_breath", slot |-> "sleep_periods", nested |-> FALSE, name |-> "average_breath"],
     [key |-> "restless", slot |-> "sleep_periods", nested |-> FALSE, name |-> "restless_periods"],
     [key |-> "temp_dev", slot |-> "daily_readiness", nested |-> FALSE, name |-> "temperature_deviation"],
     [key |-> "contrib_hrv_balance", slot |-> "daily_readiness", nested |-> TRUE, name |-> "hrv_balance"],
     [key |-> "contrib_sleep_balance", slot |-> "daily_readiness", nested |-> TRUE, name |-> "sleep_balance"],
     [key |-> "contrib_previous_night", slot |-> "daily_readiness", nested |-> TRUE, name |-> "previous_night"],
     [key |-> "contrib_recovery_index", slot |-> "daily_readiness", nested |-> TRUE, name |-> "recovery_index"],
     [key |-> "steps", slot |-> "daily_activity", nested |-> FALSE, name |-> "steps"],
     [key |-> "active_cal", slot |-> "daily_activity", nested |-> FALSE, name |-> "active_calories"],
     [key |-> "stress_summary", slot |-> "daily_stress", nested |-> FALSE, name |-> "day_summary"]}

\* the slot of the payload x ({} when the payload has none)
SlotOf(x, slot) == IF slot \in DOMAIN x.v THEN x.v[slot] ELSE EmptyDict

\* the records of the slot's data list (none for an error marker, for a slot
\* without data and for a null data)
RecordsOf(x, slot) ==
    LET s == SlotOf(x, slot)
    IN  IF s.t = "dict" /\ "data" \in DOMAIN s.v /\ s.v.data.t = "list" THEN s.v.data.v ELSE <<>>

\* the indices of the records tagged long_sleep
LongSleeps(l) ==
    {i \in DOMAIN l : l[i].t = "dict" /\ "type" \in DOMAIN l[i].v /\ l[i].v.type = StrV("long_sleep")}

\* the record C8 says the sleep section is built from
ExpectedPeriod(x) ==
    LET l == RecordsOf(x, "sleep_periods")
    IN  IF Len(l) = 0 THEN EmptyDict
        ELSE IF LongSleeps(l) # {}
            THEN l[CHOOSE i \in LongSleeps(l) : \A j \in LongSleeps(l) : i <= j]
        ELSE l[1]

\* the record that holds the field: the selected sleep period, or the first
\* record of the slot's data list; an all-absent record when there is none
RecordOfField(x, f) ==
    IF f.slot = "sleep_periods" THEN ExpectedPeriod(x)
    ELSE IF Len(RecordsOf(x, f.slot)) = 0 THEN EmptyDict
    ELSE RecordsOf(x, f.slot)[1]

\* the field is absent from its record or null in it (which covers a record
\* that is absent because the slot holds an error marker)
FieldMissing(x, f) ==
    LET rec == RecordOfField(x, f)
        holder == IF ~f.nested THEN rec
                  ELSE IF rec.t = "dict" /\ "contributors" \in DOMAIN rec.v THEN rec.v.contributors
                  ELSE EmptyDict
    IN  holder.t # "dict" \/ f.name \notin DOMAIN holder.v \/ holder.v[f.name] = None

\* C7 (as stated): in every report, a field that is absent, null, or in a
\* slot holding an error marker renders as "N/A"
C7_MissingFieldsRenderNA ==
    (fmt.called /\ ~fmt.result.raised)
    => \A f \in ReportFields : FieldMissing(fmt.input, f) => fmt.result.text[f.key] = "N/A"

\* the text the report shows for a field of the selected period
PeriodText(rec, name) == IF name \in DOMAIN rec.v THEN Render(rec.v[name]) ELSE "N/A"

\* C8: whenever format_oura_report returns a report, its sleep section is
\* built from the first record tagged long_sleep wherever in the list it is,
\* from the first record when none is tagged so, and from an all-absent
\* record when the list is empty or the slot holds an error marker
C8_SleepPeriodSelection ==
    (fmt.called /\ ~fmt.result.raised)
    => LET rec == ExpectedPeriod(fmt.input)
       IN  /\ fmt.result.period = rec
           /\ fmt.result.text.restless = PeriodText(rec, "restless_periods")
           /\ fmt.result.text.lowest_hr = PeriodText(rec, "lowest_heart_rate")
           /\ fmt.result.text.avg_hrv = PeriodText(rec, "average_hrv")

\* C8, a case of it: a rest period comes first and a record tagged
\* long_sleep second, and the report shows the second
C8_Witness ==
    /\ fmt.called
    /\ ~fmt.result.raised
    /\ RecordsOf(fmt.input, "sleep_periods") = <<Period(1, "rest"), Period(2, "long_sleep")>>
    /\ fmt.result.period = Period(2, "long_sleep")
    /\ fmt.result.text.restless = "2"

(***************************************************************************)
(* Properties of the startup.                                              *)
(***************************************************************************)
\* the required items the environment lacks: unset or empty
MissingItems(e) ==
    {n \in {"OURA_ACCESS_TOKEN", "SENDER_EMAIL", "SENDER_PASSWORD"} : e[n] \in {Unset, ""}}

\* the names a printed message lists
NamesIn(m) == {m.names[i] : i \in DOMAIN m.names}

\* C10 (as stated): once load_config is over, if a required item is missing
\* the process has exited with a failure status, has printed exactly one
\* message naming the missing items, all of them, and has made no request,
\* sent no mail and dispatched no command; if none is missing the process
\* has not exited before dispatching a command
C10_StartupValidation ==
    pc # "start"
    => IF MissingItems(env) # {}
           THEN /\ pc = "exited"
                /\ out.exit = "1"
                /\ Cardinality({i \in DOMAIN out.printed : NamesIn(out.printed[i]) # {}}) = 1
                /\ \E i \in DOMAIN out.printed : NamesIn(out.printed[i]) = MissingItems(env)
                /\ out.requests = 0
                /\ out.mails = 0
                /\ out.dispatched = ""
       ELSE pc = "exited" => out.dispatched # ""

(***************************************************************************)
(* Properties of the test command.                                         *)
(***************************************************************************)
\* the fetch of the test command failed: an exception left get_todays_data,
\* or no category could be fetched
FetchFailed ==
    \/ fetch.raised # "none"
    \/ \A c \in CategorySet : IsErrorMarker(fetch.data[c])

\* C11 (as stated): when the test command has ended it has made one fetch
\* cycle and sent no mail, and its exit status is the success code exactly
\* when the fetch succeeded
C11_TestExitReflectsFetch ==
    (out.dispatched = "test" /\ pc = "exited")
    => /\ fetch.called
       /\ out.requests = Len(fetch.log)
       /\ out.requests <= Len(Categories)
       /\ out.mails = 0
       /\ ~run.called
       /\ out.exit = "0" <=> ~FetchFailed

(***************************************************************************)
(* No catch-up.                                                            *)
(***************************************************************************)
\* the instant of time T on the day after the scheduler's start
NextDayTrigger == [date |-> NextDay(hist.start.date), min |-> TriggerMinute]

\* C12: when the scheduler is started after today's T, no run is started
\* before the next day's T, and the first run starts at the first poll at or
\* after the next day's T: while no run has started every poll made so far
\* was before that instant, and every run started at or after it
C12_NoCatchUp ==
    (job.scheduled /\ hist.start.min > TriggerMinute)
    => /\ (hist.runs = 0 /\ hist.polls > 0) => TimeLess(hist.poll, NextDayTrigger)
       /\ hist.runs > 0 => TimeLeq(NextDayTrigger, hist.lastStart)
       /\ (hist.runs = 1 /\ hist.started) => hist.lastStart = hist.poll

\* C12, a case of it: started a minute after T, the scheduler polled through
\* the rest of the day and its first run has started at the next day's T
C12_Witness ==
    /\ job.scheduled
    /\ hist.start.min = TriggerMinute + 1
    /\ hist.runs = 1
    /\ hist.started
    /\ pc = "fetching"
    /\ hist.lastStart = NextDayTrigger

(***************************************************************************)
(* One attempt per category.                                               *)
(***************************************************************************)
\* the endpoints of the seven categories, in the claimed order
ClaimedOrder ==
    <<"v2/usercollection/daily_sleep", "v2/usercollection/sleep",
      "v2/usercollection/daily_readiness", "v2/usercollection/daily_activity",
      "v2/usercollection/daily_stress", "v2/usercollection/workout",
      "v2/usercollection/sleep_time">>

\* C13 (as stated): in every call of get_todays_data the requests issued are
\* exactly one per category, in the fixed order, and when the call returns
\* no slot is None: each holds the returned payload or an error marker
C13_EachCategoryOnceInOrder ==
    fetch.called
    => /\ [i \in DOMAIN fetch.log |-> fetch.log[i].endpoint] = ClaimedOrder
       /\ fetch.raised = "none" =>
             \A c \in CategorySet :
                 /\ fetch.data[c] # None
                 /\ \/ IsErrorMarker(fetch.data[c])
                    \/ Succeeds(fetch.resp[c]) /\ fetch.data[c] = fetch.resp[c].body

====
